---- MODULE Spec2Model ----
(***************************************************************************)
(* Model of lambda/mailbox-keepalive-monitor.py: the scheduled handler     *)
(* that reads the item with id "open" from a DynamoDB table, compares its  *)
(* timestamp with the current time and publishes an SNS alert when the     *)
(* timestamp is older than THRESHOLD_HOURS.                                *)
(*                                                                         *)
(* Strings that the code parses (environment values, the stored timestamp) *)
(* are sequences of one-character strings, so that int() and strptime()    *)
(* are computed character by character.  Instants are seconds since the    *)
(* Unix epoch (UTC); a naive datetime is the number of seconds its civil   *)
(* reading is after 1970-01-01 00:00:00 on the same civil clock.           *)
(***************************************************************************)
EXTENDS Integers, Sequences, FiniteSets, TLC

VARIABLES
    environ,          \* os.environ: one entry per variable the handler reads
    table,            \* the DynamoDB table: a set of items
    clock,            \* the current instant, seconds since the epoch (UTC)
    ticks,            \* how often the clock has advanced (bounds the model)
    pc,               \* position of the handler
    threshold_hours,  \* local of lambda_handler (line 49)
    response,         \* local of lambda_handler (line 60)
    ret,              \* the string the invocation returned
    exc,              \* the exception that left the invocation, if any
    get_item_result,  \* how this invocation's table.get_item call ended
    publish_result,   \* how this invocation's sns.publish call ended
    get_item_calls,   \* table.get_item calls made by this invocation
    publish_calls,    \* sns.publish calls made by this invocation
    sent,             \* every message the topic has accepted, oldest first
    invocations,      \* invocations started so far
    stale_seen,       \* invocations whose comparison on line 67 was true
    call_failures     \* service calls that have failed so far

vars == <<environ, table, clock, ticks, pc, threshold_hours, response, ret, exc,
          get_item_result, publish_result, get_item_calls, publish_calls, sent,
          invocations, stale_seen, call_failures>>

(***************************************************************************)
(* Bounds of the model.                                                    *)
(***************************************************************************)
MaxInvocations == 2
MaxTicks == 4

TickSeconds == 30 * 60

(***************************************************************************)
(* Characters and numbers.                                                 *)
(***************************************************************************)
Digits == {"0", "1", "2", "3", "4", "5", "6", "7", "8", "9"}

DigitVal(c) ==
    CASE c = "0" -> 0 [] c = "1" -> 1 [] c = "2" -> 2 [] c = "3" -> 3
      [] c = "4" -> 4 [] c = "5" -> 5 [] c = "6" -> 6 [] c = "7" -> 7
      [] c = "8" -> 8 [] c = "9" -> 9

IsDigits(s) == s # <<>> /\ \A i \in 1..Len(s) : s[i] \in Digits

RECURSIVE DigitsValue(_)
DigitsValue(s) ==
    IF s = <<>> THEN 0
    ELSE 10 * DigitsValue(SubSeq(s, 1, Len(s) - 1)) + DigitVal(s[Len(s)])

RECURSIVE LStrip(_)
LStrip(s) == IF s # <<>> /\ Head(s) = " " THEN LStrip(Tail(s)) ELSE s

RECURSIVE RStrip(_)
RStrip(s) ==
    IF s # <<>> /\ s[Len(s)] = " " THEN RStrip(SubSeq(s, 1, Len(s) - 1)) ELSE s

\* Python's int(str): surrounding whitespace is stripped, one sign is allowed,
\* then at least one decimal digit; anything else raises ValueError.
int(s) ==
    LET t    == RStrip(LStrip(s))
        sgn  == t # <<>> /\ Head(t) \in {"+", "-"}
        body == IF sgn THEN Tail(t) ELSE t
    IN  IF IsDigits(body)
        THEN [ok |-> TRUE,
              val |-> IF sgn /\ Head(t) = "-" THEN 0 - DigitsValue(body)
                      ELSE DigitsValue(body)]
        ELSE [ok |-> FALSE, val |-> 0]

(***************************************************************************)
(* Calendar arithmetic of datetime.                                        *)
(***************************************************************************)
IsLeap(y) == (y % 4 = 0 /\ y % 100 # 0) \/ y % 400 = 0

DaysInMonth(y, m) ==
    IF m = 2 THEN (IF IsLeap(y) THEN 29 ELSE 28)
    ELSE IF m \in {4, 6, 9, 11} THEN 30 ELSE 31

\* Days from 1970-01-01 to the civil date y-m-d (proleptic Gregorian).
DaysFromCivil(y, m, d) ==
    LET yy  == IF m <= 2 THEN y - 1 ELSE y
        era == yy \div 400
        yoe == yy - era * 400
        mp  == (m + 9) % 12
        doy == (153 * mp + 2) \div 5 + d - 1
        doe == yoe * 365 + yoe \div 4 - yoe \div 100 + doy
    IN  era * 146097 + doe - 719468

\* A naive datetime as seconds on its own civil clock.
NaiveSeconds(dt) ==
    DaysFromCivil(dt.year, dt.month, dt.day) * 86400
        + dt.hour * 3600 + dt.minute * 60 + dt.second

\* datetime.strptime(s, '%Y%m%d%H%M%S') on a string of fourteen characters:
\* every directive takes its full width, and the result must be a date that
\* exists; everything else raises ValueError.  (Strings of another length are
\* treated as not matching; the stored values of this model have fourteen
\* characters or contain a character that is no digit.)
strptime(s) ==
    LET num(i, j) == DigitsValue(SubSeq(s, i, j))
        dt == [year |-> num(1, 4), month |-> num(5, 6), day |-> num(7, 8),
               hour |-> num(9, 10), minute |-> num(11, 12), second |-> num(13, 14)]
    IN  IF /\ Len(s) = 14
           /\ IsDigits(s)
           /\ dt.year >= 1
           /\ dt.month \in 1..12
           /\ dt.day \in 1..DaysInMonth(dt.year, dt.month)
           /\ dt.hour \in 0..23
           /\ dt.minute \in 0..59
           /\ dt.second \in 0..59
        THEN [ok |-> TRUE, dt |-> dt]
        ELSE [ok |-> FALSE, dt |-> [year |-> 1, month |-> 1, day |-> 1,
                                    hour |-> 0, minute |-> 0, second |-> 0]]

\* The utcoffset of the tzinfo object pytz.timezone('US/Central') when it is
\* attached with datetime.replace: the zone's first entry, local mean time,
\* 5 hours 51 minutes west of Greenwich, whatever the date.
LmtOffsetMinutes == 351

\* timestamp.replace(tzinfo=pytz.timezone('US/Central')) as an instant.
ReplaceTzinfo(dt) == NaiveSeconds(dt) + LmtOffsetMinutes * 60

\* datetime.timedelta(hours=h) in seconds.
timedelta(h) == h * 3600

(***************************************************************************)
(* The process environment.                                                *)
(***************************************************************************)
Unset == [isset |-> FALSE, val |-> <<>>]
Val(s) == [isset |-> TRUE, val |-> s]

\* os.environ.get(name): None (Unset) when the variable is not set.
EnvGet(name) == environ[name]

\* Python truthiness of what os.environ.get returned: None and '' are false.
Truthy(v) == v.isset /\ v.val # <<>>

NameValues == {Unset, Val(<<>>), Val(<<"m", "b">>)}

ThresholdValues ==
    {Unset, Val(<<>>), Val(<<"a", "b", "c">>), Val(<<"1">>), Val(<<"2">>),
     Val(<<"0">>), Val(<<"-", "1">>), Val(<<" ", "2">>)}

Environments ==
    [DDB_TABLE_NAME : NameValues, SNS_ARN : NameValues,
     THRESHOLD_HOURS : ThresholdValues]

(***************************************************************************)
(* The table and the values the mailbox process may have left in it.       *)
(***************************************************************************)
WinterStamp  == <<"2","0","2","4","0","1","1","5","1","2","0","0","0","0">>
SummerStamp  == <<"2","0","2","4","0","7","1","5","1","2","0","0","0","0">>
NoSuchDay    == <<"2","0","2","4","0","2","3","0","1","2","0","0","0","0">>
NotAStamp    == <<"n","e","v","e","r">>

Tables ==
    { {},
      {[id |-> "open"]},
      {[id |-> "closed", timestamp |-> WinterStamp]},
      {[id |-> "open", timestamp |-> WinterStamp]},
      {[id |-> "open", timestamp |-> SummerStamp],
       [id |-> "closed", timestamp |-> WinterStamp]},
      {[id |-> "open", timestamp |-> NoSuchDay]},
      {[id |-> "open", timestamp |-> NotAStamp]} }

\* The instants at which the model's clock starts: the instants at which
\* US Central clocks read WinterStamp (CST, UTC-6) and SummerStamp (CDT, UTC-5).
StartInstants ==
    { DaysFromCivil(2024, 1, 15) * 86400 + 18 * 3600,
      DaysFromCivil(2024, 7, 15) * 86400 + 17 * 3600 }

\* Mutant of get_item: the key is ignored (a scan instead of a lookup).
get_item_any(tbl, key) ==
    IF tbl # {}
    THEN [ResponseMetadata |-> "200", Item |-> CHOOSE it \in tbl : TRUE]
    ELSE [ResponseMetadata |-> "200"]

\* table.get_item(Key={'id': key}): the response carries 'Item' only when the
\* table holds an item with that key.
get_item(tbl, key) ==
    IF \E it \in tbl : it.id = key
    THEN [ResponseMetadata |-> "200",
          Item |-> CHOOSE it \in tbl : it.id = key]
    ELSE [ResponseMetadata |-> "200"]

NoResponse == [ResponseMetadata |-> "none"]

\* How a call to a service can end: it returns, it raises
\* botocore.exceptions.ClientError (the service answered with an error), or it
\* raises another exception (no answer at all: EndpointConnectionError).
CallOutcomes == {"ok", "ClientError", "EndpointConnectionError"}

(***************************************************************************)
(* The strings lambda_handler returns.                                     *)
(***************************************************************************)
EnvError ==
    "Error: Environment variables DDB_TABLE_NAME, SNS_ARN, and THRESHOLD_HOURS must be set."
ThresholdError == "Error: Invalid value for THRESHOLD_HOURS. It must be an integer."
Sent == "SNS notification sent"
Within == "Timestamp is within the threshold"
NoTimestamp == "No timestamp found in DynamoDB"
ErrorOccurred == "Error occurred"

Outcomes == {EnvError, ThresholdError, Sent, Within, NoTimestamp, ErrorOccurred}

\* The message of lines 70-74.
AlertMessage(arn, hours) ==
    [TopicArn |-> arn,
     Message  |-> <<"The timestamp in DynamoDB is over ", hours, " hours old.">>,
     Subject  |-> "Mailbox State Alert"]

(***************************************************************************)
(* The conditions of lambda_handler.                                       *)
(***************************************************************************)
\* Mutant of RequiredSet: SNS_ARN is not checked.
RequiredSetNoSns(env) ==
    /\ Truthy(env.DDB_TABLE_NAME)
    /\ Truthy(env.THRESHOLD_HOURS)

\* Line 44 (negated): all three values are truthy.
RequiredSet(env) ==
    /\ Truthy(env.DDB_TABLE_NAME)
    /\ Truthy(env.SNS_ARN)
    /\ Truthy(env.THRESHOLD_HOURS)

\* Line 61.
HasTimestamp(resp) ==
    "Item" \in DOMAIN resp /\ "timestamp" \in DOMAIN resp.Item

\* Lines 64, 67-68: now - timestamp > timedelta(hours=threshold_hours), both
\* sides aware datetimes, so the difference is one of instants.
IsStale(dt, now, hours) == now - ReplaceTzinfo(dt) > timedelta(hours)

\* Mutants of Caught: no except clause, and "except Exception".
CaughtNothing(e) == FALSE
CaughtAll(e) == TRUE

\* Line 80: the except clause of the try block that starts on line 58.
Caught(e) == e = "ClientError"

(***************************************************************************)
(* The state machine.                                                      *)
(***************************************************************************)
Init ==
    /\ environ \in Environments
    /\ table \in Tables
    /\ clock \in StartInstants
    /\ ticks = 0
    /\ pc = "idle"
    /\ threshold_hours = 0
    /\ response = NoResponse
    /\ ret = ""
    /\ exc = ""
    /\ get_item_result = "none"
    /\ publish_result = "none"
    /\ get_item_calls = 0
    /\ publish_calls = 0
    /\ sent = <<>>
    /\ invocations = 0
    /\ stale_seen = 0
    /\ call_failures = 0

Return(s) == pc' = "returned" /\ ret' = s /\ exc' = ""
Raise(e) == pc' = "raised" /\ exc' = e /\ ret' = ""

\* Mutant of Start: a THRESHOLD_HOURS that does not parse falls back to a
\* default of 24 hours instead of ending the invocation.
StartDefaultsThreshold ==
    /\ pc = "idle"
    /\ invocations < MaxInvocations
    /\ invocations' = invocations + 1
    /\ LET threshold_hours_env == EnvGet("THRESHOLD_HOURS")
       IN  IF ~RequiredSet(environ)
           THEN Return(EnvError) /\ UNCHANGED threshold_hours
           ELSE /\ threshold_hours' = IF int(threshold_hours_env.val).ok
                                      THEN int(threshold_hours_env.val).val
                                      ELSE 24
                /\ pc' = "get_item"
                /\ UNCHANGED <<ret, exc>>
    /\ UNCHANGED <<environ, table, clock, ticks, response, get_item_result,
                   publish_result, get_item_calls, publish_calls, sent,
                   stale_seen, call_failures>>

\* Lines 36-56: the trigger invokes the handler, which reads and checks its
\* configuration.  No call to a service is made here.
Start ==
    /\ pc = "idle"
    /\ invocations < MaxInvocations
    /\ invocations' = invocations + 1
    /\ LET threshold_hours_env == EnvGet("THRESHOLD_HOURS")
       IN  IF ~RequiredSet(environ)
           THEN Return(EnvError) /\ UNCHANGED threshold_hours
           ELSE IF ~int(threshold_hours_env.val).ok
           THEN Return(ThresholdError) /\ UNCHANGED threshold_hours
           ELSE /\ threshold_hours' = int(threshold_hours_env.val).val
                /\ pc' = "get_item"
                /\ UNCHANGED <<ret, exc>>
    /\ UNCHANGED <<environ, table, clock, ticks, response, get_item_result,
                   publish_result, get_item_calls, publish_calls, sent,
                   stale_seen, call_failures>>

\* Lines 58-68 and 76-82: the read of the item, the parse of its timestamp and
\* the comparison with the current time.
GetItem ==
    /\ pc = "get_item"
    /\ \E outcome \in CallOutcomes :
        /\ get_item_result' = outcome
        /\ get_item_calls' = get_item_calls + 1
        /\ IF outcome = "ok"
           THEN LET resp == get_item(table, "open")
                IN  /\ response' = resp
                    /\ call_failures' = call_failures
                    /\ IF HasTimestamp(resp)
                       THEN LET timestamp == strptime(resp.Item.timestamp)
                            IN  IF ~timestamp.ok
                                THEN Raise("ValueError") /\ UNCHANGED stale_seen
                                ELSE IF IsStale(timestamp.dt, clock, threshold_hours)
                                THEN /\ pc' = "publish"
                                     /\ stale_seen' = stale_seen + 1
                                     /\ UNCHANGED <<ret, exc>>
                                ELSE Return(Within) /\ UNCHANGED stale_seen
                       ELSE Return(NoTimestamp) /\ UNCHANGED stale_seen
           ELSE /\ call_failures' = call_failures + 1
                /\ UNCHANGED <<response, stale_seen>>
                /\ IF Caught(outcome) THEN Return(ErrorOccurred) ELSE Raise(outcome)
    /\ UNCHANGED <<environ, table, clock, ticks, threshold_hours, publish_result,
                   publish_calls, sent, invocations>>

\* Mutant of Publish: an alert is suppressed when one was sent before.
PublishDeduplicated ==
    /\ pc = "publish"
    /\ \E outcome \in CallOutcomes :
        /\ publish_result' = outcome
        /\ publish_calls' = publish_calls + 1
        /\ IF outcome = "ok"
           THEN /\ sent' = IF sent = <<>>
                           THEN Append(sent, AlertMessage(EnvGet("SNS_ARN").val, threshold_hours))
                           ELSE sent
                /\ call_failures' = call_failures
                /\ Return(Sent)
           ELSE /\ call_failures' = call_failures + 1
                /\ UNCHANGED sent
                /\ IF Caught(outcome) THEN Return(ErrorOccurred) ELSE Raise(outcome)
    /\ UNCHANGED <<environ, table, clock, ticks, threshold_hours, response,
                   get_item_result, get_item_calls, invocations, stale_seen>>

\* Mutant of Publish: a publish that raises ClientError is tried once more.
PublishRetries ==
    /\ pc = "publish"
    /\ \E outcome \in CallOutcomes :
        /\ publish_result' = outcome
        /\ publish_calls' = publish_calls + 1
        /\ IF outcome = "ok"
           THEN /\ sent' = Append(sent, AlertMessage(EnvGet("SNS_ARN").val, threshold_hours))
                /\ call_failures' = call_failures
                /\ Return(Sent)
           ELSE /\ call_failures' = call_failures + 1
                /\ UNCHANGED sent
                /\ IF Caught(outcome) /\ publish_calls = 0
                   THEN UNCHANGED <<pc, ret, exc>>
                   ELSE IF Caught(outcome) THEN Return(ErrorOccurred)
                   ELSE Raise(outcome)
    /\ UNCHANGED <<environ, table, clock, ticks, threshold_hours, response,
                   get_item_result, get_item_calls, invocations, stale_seen>>

\* Lines 70-75 and 80-82: the publish of the alert.
Publish ==
    /\ pc = "publish"
    /\ \E outcome \in CallOutcomes :
        /\ publish_result' = outcome
        /\ publish_calls' = publish_calls + 1
        /\ IF outcome = "ok"
           THEN /\ sent' = Append(sent, AlertMessage(EnvGet("SNS_ARN").val, threshold_hours))
                /\ call_failures' = call_failures
                /\ Return(Sent)
           ELSE /\ call_failures' = call_failures + 1
                /\ UNCHANGED sent
                /\ IF Caught(outcome) THEN Return(ErrorOccurred) ELSE Raise(outcome)
    /\ UNCHANGED <<environ, table, clock, ticks, threshold_hours, response,
                   get_item_result, get_item_calls, invocations, stale_seen>>

\* The invocation is over; the locals of lambda_handler are gone.
Finish ==
    /\ pc \in {"returned", "raised"}
    /\ pc' = "idle"
    /\ threshold_hours' = 0
    /\ response' = NoResponse
    /\ ret' = ""
    /\ exc' = ""
    /\ get_item_result' = "none"
    /\ publish_result' = "none"
    /\ get_item_calls' = 0
    /\ publish_calls' = 0
    /\ UNCHANGED <<environ, table, clock, ticks, sent, invocations, stale_seen,
                   call_failures>>

\* Time passes between two invocations.
Tick ==
    /\ pc = "idle"
    /\ ticks < MaxTicks
    /\ ticks' = ticks + 1
    /\ clock' = clock + TickSeconds
    /\ UNCHANGED <<environ, table, pc, threshold_hours, response, ret, exc,
                   get_item_result, publish_result, get_item_calls, publish_calls,
                   sent, invocations, stale_seen, call_failures>>

\* The mailbox process (not part of this program) rewrites the table between
\* two invocations.
ExternalWrite ==
    /\ pc = "idle"
    /\ \E t \in Tables \ {table} : table' = t
    /\ UNCHANGED <<environ, clock, ticks, pc, threshold_hours, response, ret, exc,
                   get_item_result, publish_result, get_item_calls, publish_calls,
                   sent, invocations, stale_seen, call_failures>>

Next == Start \/ GetItem \/ Publish \/ Finish \/ Tick \/ ExternalWrite

Spec == Init /\ [][Next]_vars

(***************************************************************************)
(* What the properties below speak about.                                  *)
(***************************************************************************)
\* The invocation has ended: the state in which its outcome is observed.
\* The table and the clock do not change between Start and Finish.
Done == pc \in {"returned", "raised"}

\* The integer literals among the THRESHOLD_HOURS values of the model, with
\* the integer each denotes.
IntegerLiterals == {<<"1">>, <<"2">>, <<"0">>, <<"-", "1">>, <<" ", "2">>}

ExpectedHours(v) ==
    CASE v = <<"1">> -> 1
      [] v = <<"2">> -> 2
      [] v = <<"0">> -> 0
      [] v = <<"-", "1">> -> 0 - 1
      [] v = <<" ", "2">> -> 2

AllPresent == \A n \in DOMAIN environ : environ[n].isset
AllNonEmpty == \A n \in DOMAIN environ : environ[n].isset /\ environ[n].val # <<>>
ThresholdIsInteger == environ.THRESHOLD_HOURS.val \in IntegerLiterals
ValidConfig == AllNonEmpty /\ ThresholdIsInteger

\* The item the mailbox process keeps under the key 'open'.
HasStoredStamp == \E it \in table : it.id = "open" /\ "timestamp" \in DOMAIN it
StoredStamp == (CHOOSE it \in table : it.id = "open").timestamp

\* US Central civil time since 2007: daylight time from 02:00 on the second
\* Sunday of March to 02:00 on the first Sunday of November.
Weekday(days) == (days + 4) % 7
SundayFrom(y, m, d) == CHOOSE k \in d..(d + 6) : Weekday(DaysFromCivil(y, m, k)) = 0
DstStart(y) == DaysFromCivil(y, 3, SundayFrom(y, 3, 8)) * 86400 + 2 * 3600
DstEnd(y) == DaysFromCivil(y, 11, SundayFrom(y, 11, 1)) * 86400 + 2 * 3600

\* The civil reading dt is shown by US Central clocks exactly once.
CentralReadsOnce(dt) ==
    LET n == NaiveSeconds(dt)
    IN  /\ dt.year >= 2007
        /\ ~(DstStart(dt.year) <= n /\ n < DstStart(dt.year) + 3600)
        /\ ~(DstEnd(dt.year) - 3600 <= n /\ n < DstEnd(dt.year))

\* The instant at which US Central clocks read dt.
CentralInstant(dt) ==
    LET n == NaiveSeconds(dt)
    IN  IF DstStart(dt.year) <= n /\ n < DstEnd(dt.year)
        THEN n + 5 * 3600
        ELSE n + 6 * 3600

WellFormedStamp ==
    HasStoredStamp /\ strptime(StoredStamp).ok /\ CentralReadsOnce(strptime(StoredStamp).dt)

\* Seconds from the instant US Central clocks read the stored value to now.
CentralElapsed == clock - CentralInstant(strptime(StoredStamp).dt)

ThresholdSeconds == ExpectedHours(environ.THRESHOLD_HOURS.val) * 3600

LastSent == sent[Len(sent)]

(***************************************************************************)
(* The claims.                                                             *)
(***************************************************************************)

\* C1: when the store read and the publish do not fail and the stored
\* timestamp is well formed, an elapsed time (from the instant US Central
\* clocks read the stored value) above THRESHOLD_HOURS hours makes the
\* invocation publish exactly one "Mailbox State Alert" message to the
\* configured topic and return "SNS notification sent".  (Stated for a
\* positive THRESHOLD_HOURS, the only kind the data model admits.)
C1_StaleNotifies ==
    (/\ Done
     /\ get_item_result = "ok"
     /\ ThresholdSeconds > 0
     /\ publish_result \in {"none", "ok"}
     /\ WellFormedStamp
     /\ CentralElapsed > ThresholdSeconds)
    => /\ pc = "returned"
       /\ ret = Sent
       /\ publish_calls = 1
       /\ sent # <<>>
       /\ LastSent.Subject = "Mailbox State Alert"
       /\ LastSent.TopicArn = environ.SNS_ARN.val

\* C2: when the store read succeeds and the stored timestamp is well formed,
\* an elapsed time (from the instant US Central clocks read the stored value)
\* of at most THRESHOLD_HOURS hours makes the invocation publish nothing and
\* return "Timestamp is within the threshold".  (Stated for a positive
\* THRESHOLD_HOURS, the only kind the data model admits.)
C2_WithinDoesNotNotify ==
    (/\ Done
     /\ get_item_result = "ok"
     /\ ThresholdSeconds > 0
     /\ WellFormedStamp
     /\ CentralElapsed <= ThresholdSeconds)
    => /\ pc = "returned"
       /\ ret = Within
       /\ publish_calls = 0

\* C3: whatever the environment, the table and the outcomes of the service
\* calls, an invocation ends by returning one of the six outcome strings; no
\* exception leaves lambda_handler.  (Stated for service calls that return or
\* raise ClientError; an exception of another class leaves the handler too.)
C3_AlwaysReturns ==
    (/\ Done
     /\ get_item_result \in {"none", "ok", "ClientError"}
     /\ publish_result \in {"none", "ok", "ClientError"})
    => (pc = "returned" /\ ret \in Outcomes)

\* C4 as stated: a variable that is absent gives the environment-variable
\* error, and with all three present a THRESHOLD_HOURS that is no integer gives
\* the threshold-parse error; in both cases no store read and no publish.
C4_Original ==
    Done =>
        /\ ~AllPresent =>
               (ret = EnvError /\ get_item_calls = 0 /\ publish_calls = 0)
        /\ (AllPresent /\ ~ThresholdIsInteger) =>
               (ret = ThresholdError /\ get_item_calls = 0 /\ publish_calls = 0)

\* C4 as amended: a variable that is absent or empty gives the
\* environment-variable error, and with all three non-empty a THRESHOLD_HOURS
\* that is no integer gives the threshold-parse error; in both cases the
\* invocation makes no store read and no publish.
C4_ConfigErrorsBeforeCalls ==
    Done =>
        /\ ~AllNonEmpty =>
               (pc = "returned" /\ ret = EnvError
                /\ get_item_calls = 0 /\ publish_calls = 0)
        /\ (AllNonEmpty /\ ~ThresholdIsInteger) =>
               (pc = "returned" /\ ret = ThresholdError
                /\ get_item_calls = 0 /\ publish_calls = 0)

C4_Witness ==
    /\ Done
    /\ AllNonEmpty
    /\ environ.THRESHOLD_HOURS.val = <<"a", "b", "c">>
    /\ ret = ThresholdError

\* C5: with a valid configuration and a successful store read, a table with no
\* item for the key 'open', or with an item that lacks the timestamp field,
\* makes the invocation return "No timestamp found in DynamoDB" and publish
\* nothing.
C5_NoTimestamp ==
    (Done /\ ValidConfig /\ get_item_result = "ok" /\ ~HasStoredStamp)
    => (pc = "returned" /\ ret = NoTimestamp /\ publish_calls = 0)

C5_Witness ==
    /\ Done
    /\ ValidConfig
    /\ get_item_result = "ok"
    /\ table = {[id |-> "closed", timestamp |-> WinterStamp]}
    /\ ret = NoTimestamp

\* C6: with a valid configuration, a store read that raises ClientError makes
\* the invocation return "Error occurred"; the read is attempted exactly once
\* and nothing is published.
C6_StoreFailure ==
    (Done /\ ValidConfig /\ get_item_result = "ClientError")
    => /\ pc = "returned"
       /\ ret = ErrorOccurred
       /\ get_item_calls = 1
       /\ publish_calls = 0

C6_Witness ==
    Done /\ ValidConfig /\ get_item_result = "ClientError" /\ ret = ErrorOccurred

\* C7: as long as no service call has failed, between two steps of an
\* invocation's calls the topic has accepted exactly one message for every
\* invocation whose comparison found the timestamp stale: no alert is
\* suppressed and none is repeated.
C7_NoDeduplication ==
    (pc \in {"idle", "returned", "raised"} /\ call_failures = 0)
    => Len(sent) = stale_seen

C7_Witness ==
    /\ Done
    /\ call_failures = 0
    /\ invocations = 2
    /\ stale_seen = 2
    /\ Len(sent) = 2
    /\ ret = Sent

\* C8: an invocation makes at most one publish call and at most one store
\* read, the read comes before the publish, and no step of the handler changes
\* the table.
C8_Frame ==
    [][ /\ publish_calls' \in {0, 1}
        /\ get_item_calls' \in {0, 1}
        /\ (publish_calls' > publish_calls => get_item_calls = 1)
        /\ (pc' # pc => table' = table) ]_vars

C8_Witness == Done /\ get_item_calls = 1 /\ publish_calls = 1

\* C9 as stated: an invocation that reaches the store read or the comparison
\* uses a threshold_hours that is greater than zero.
C9_Original ==
    (pc \in {"get_item", "publish"} \/ get_item_calls > 0)
    => (ThresholdIsInteger /\ threshold_hours > 0)

\* C9 as amended: an invocation that reaches the store read or the comparison
\* uses the integer that THRESHOLD_HOURS denotes, which may be zero or
\* negative; a THRESHOLD_HOURS that is absent, empty or no integer never
\* reaches an external call.
C9_ThresholdIsTheInteger ==
    (pc \in {"get_item", "publish"} \/ get_item_calls > 0)
    => /\ Truthy(environ.THRESHOLD_HOURS)
       /\ ThresholdIsInteger
       /\ threshold_hours = ExpectedHours(environ.THRESHOLD_HOURS.val)

C9_Witness ==
    /\ Done
    /\ get_item_calls = 1
    /\ environ.THRESHOLD_HOURS.val = <<"-", "1">>
    /\ threshold_hours = 0 - 1

\* C10 as stated: an invocation returns "Error occurred" only if its store
\* read failed; a failure of the publish call does not become "Error occurred".
C10_Original ==
    (Done /\ ret = ErrorOccurred) => get_item_result \notin {"none", "ok"}

\* C10 as amended: an invocation returns "Error occurred" only if its store
\* read or its publish call raised ClientError.
C10_OnlyClientError ==
    (Done /\ ret = ErrorOccurred)
    => (get_item_result = "ClientError" \/ publish_result = "ClientError")

C10_Witness ==
    /\ Done
    /\ ret = ErrorOccurred
    /\ get_item_result = "ok"
    /\ publish_result = "ClientError"
====
